---- MODULE Spec2Model ----
(***************************************************************************)
(* Coordination layer of the face / voice registration system:             *)
(*   - the coordinator thread  IntegratedFaceVoiceSystem.voice_listener_   *)
(*     thread  (src/real_ar/main.py 61-117),                               *)
(*   - the main loop  IntegratedFaceVoiceSystem.run  (main.py 301-413),    *)
(*   - the registration dialog  register_new_face  (main.py 213-298) with  *)
(*     the prompts of VoiceRecognition (voice_recognition.py 190-300),     *)
(*   - the two stores, Database.face_notes (database.py) and FaceDatabase  *)
(*     (detect_and_recognition.py 48-75),                                  *)
(*   - the wake-word detector  VoiceActivation (voice_activation.py): in   *)
(*     Spec a call of listen_for_wake_word is the opening of the stream    *)
(*     and one step that yields its result; ListenSpec runs a session of   *)
(*     the detector frame by frame,                                        *)
(*   - the sync thread  sync_thread  (main.py 120-165) and the upload      *)
(*     tasks  send_new_face_to_server  (main.py 168-210): SystemSpec and   *)
(*     SystemLiveSpec run them beside the threads of Spec,                 *)
(*   - one call of register_new_face with the answer of every confirmation *)
(*     round kept: PromptSpec,                                             *)
(*   - the two locks, self.lock of main.py:54 and self.lock of             *)
(*     voice_activation.py:25: LockSpec takes listen_for_wake_word and     *)
(*     close() lock section by lock section.                               *)
(* The threads interleave at the granularity of their lock sections and of *)
(* their blocking calls.                                                   *)
(***************************************************************************)
EXTENDS Naturals, Sequences, FiniteSets, TLC

VARIABLES
    listening_for_wake_word,        \* main.py:45
    registration_mode,              \* main.py:46
    start_registration_requested,   \* main.py:55
    unknown_faces,                  \* main.py:50
    lock,                           \* main.py:54, the thread that holds self.lock
    running,                        \* main.py:38
    wake_word_listening,            \* ar_display.py:104
    vpc,                            \* position of the coordinator thread
    current_display,                \* main.py:67, local of the coordinator
    last_broadcast,                 \* the value line 82 passed last
    mpc,                            \* position of the main thread
    dpc,                            \* position inside register_new_face
    face_to_register,               \* main.py:344, local of run
    field,                          \* the field the dialog is prompting for
    captured,                       \* the transcript awaiting its yes / no
    name,                           \* main.py:229
    notes,                          \* main.py:252
    category,                       \* main.py:261
    id,                             \* main.py:272
    face_notes,                     \* database.py:11, rows of the table
    face_db,                        \* detect_and_recognition.py:51-52
    uploads,                        \* main.py:276, upload tasks started
    dialogs,                        \* register_new_face calls in progress
    confirmed,                      \* values answered with "yes" in this dialog
    rows0,                          \* Len(face_notes) when the dialog started
    faces0,                         \* Len(face_db) when the dialog started
    success,                        \* the dialog reached main.py:280
    outcome,                        \* what the last request check of run did
    stream,                         \* voice_activation.py:16, self.stream
    open_streams,                   \* streams of self.audio opened, not closed
    speech_detected,                \* voice_activation.py:21
    audio_buffer,                   \* voice_activation.py:22, frames by index
    lpc,                            \* position inside listen_for_wake_word
    listens,                        \* calls of listen_for_wake_word so far
    closes,                         \* calls of close() so far
    frames,                         \* the chunks read by the call, by kind
    segments,                       \* what process_audio_chunk returned so far
    heard,                          \* the transcripts the call obtained
    result,                         \* what the last call returned
    flushed,                        \* the buffer line 146 handed to save_audio
    scratch,                        \* the file recordings/recorded_audio.wav
    va_lock,                        \* voice_activation.py:25, its holder
    spc,                            \* position of the sync thread
    posted,                         \* what the finished upload tasks returned
    response_text                   \* voice_recognition.py:246, response

vars == << listening_for_wake_word, registration_mode,
           start_registration_requested, unknown_faces, lock, running,
           wake_word_listening, vpc, current_display, last_broadcast, mpc,
           dpc,
           face_to_register, field, captured, name, notes, category, id, face_notes, face_db,
           uploads, dialogs, confirmed, rows0, faces0, success, outcome,
           stream, open_streams, speech_detected, audio_buffer, lpc, listens,
           closes, frames, segments, heard, result, flushed, scratch, va_lock,
           spc, posted, response_text >>

sharedVars == << listening_for_wake_word, registration_mode,
                 start_registration_requested, unknown_faces, lock >>

voiceVars == << vpc, current_display, last_broadcast >>

dialogLocals == << field, captured, name, notes, category, id, confirmed,
                   rows0, faces0, success >>

dialogVars == << dpc, dialogLocals >>

storeVars == << face_notes, face_db, uploads >>

\* The detector's state that Spec leaves to ListenSpec
detectorVars == << open_streams, speech_detected, audio_buffer, lpc, listens,
                  closes, frames, segments, heard, result, flushed,
                  scratch, va_lock >>

\* The sync thread and the upload tasks
backgroundVars == << spc, posted >>

\* The state of IntegratedFaceVoiceSystem, which ListenSpec leaves alone
systemVars == << sharedVars, running, wake_word_listening, voiceVars, mpc,
                 face_to_register, dialogVars, storeVars, dialogs, outcome,
                 backgroundVars, response_text >>

(***************************************************************************)
(* Bounds                                                                  *)
(***************************************************************************)
\* Registrations are offered while both stores hold fewer entries than this.
MaxRecords == 1

\* The persons the camera can see; each stands for a box and an encoding.
Faces == {"f1", "f2"}

\* Python's None.
NoneVal == "<None>"

(***************************************************************************)
(* Text helpers: Python's str operations used by the prompts               *)
(***************************************************************************)
UpperLetters == "ABCDEFGHIJKLMNOPQRSTUVWXYZ"

LowerLetters == "abcdefghijklmnopqrstuvwxyz"

\* str.lower() on one character
LowerChar(c) ==
    IF \E i \in 1..Len(UpperLetters) : SubSeq(UpperLetters, i, i) = c
    THEN LET i == CHOOSE j \in 1..Len(UpperLetters) :
                      SubSeq(UpperLetters, j, j) = c
         IN  SubSeq(LowerLetters, i, i)
    ELSE c

RECURSIVE Lower(_)
\* str.lower()
Lower(s) ==
    IF Len(s) = 0 THEN ""
    ELSE LowerChar(SubSeq(s, 1, 1)) \o Lower(SubSeq(s, 2, Len(s)))

\* w in s
Contains(s, w) ==
    \E i \in 1..(Len(s) + 1) :
        /\ i + Len(w) - 1 <= Len(s)
        /\ SubSeq(s, i, i + Len(w) - 1) = w

RECURSIVE Remove(_, _)
\* s.replace(w, ""), w non-empty
Remove(s, w) ==
    IF Len(s) < Len(w) THEN s
    ELSE IF SubSeq(s, 1, Len(w)) = w
         THEN Remove(SubSeq(s, Len(w) + 1, Len(s)), w)
         ELSE SubSeq(s, 1, 1) \o Remove(SubSeq(s, 2, Len(s)), w)

RECURSIVE Strip(_)
\* str.strip()
Strip(s) ==
    IF Len(s) = 0 THEN s
    ELSE IF SubSeq(s, 1, 1) = " " THEN Strip(SubSeq(s, 2, Len(s)))
    ELSE IF SubSeq(s, Len(s), Len(s)) = " "
         THEN Strip(SubSeq(s, 1, Len(s) - 1))
    ELSE s

\* voice_recognition.py:289
wake_word == "register"

\* What record_audio, save_audio and transcribe_audio hand to get_voice_input
\* when the dialog captures field f: NoneVal for a failed recording, save or
\* transcription, "" for "no results", otherwise the transcript.
CaptureInputs(f) ==
    CASE f = "name"     -> {NoneVal, "", "Alice", "Register Bob", "register"}
      [] f = "notes"    -> {NoneVal, "", "tall"}
      [] f = "category" -> {NoneVal, "", "friend"}

\* The same for the answer to a confirmation question.
AnswerInputs == {NoneVal, "", "Yes", "no", "oh yes not no", "maybe"}

\* VoiceRecognition.get_voice_input on the transcription result raw
GetVoiceInput(raw) ==
    IF raw = NoneVal THEN NoneVal
    ELSE IF Contains(Lower(raw), wake_word)
         THEN Strip(Remove(Lower(raw), wake_word))
         ELSE raw

\* YesNoResponse with the test for "no" before the test for "yes"
YesNoResponse_NoFirst(response) ==
    IF response # NoneVal
    THEN IF Contains(Lower(response), "no") THEN "no"
         ELSE IF Contains(Lower(response), "yes") THEN "yes"
         ELSE "again"
    ELSE "again"

\* One round of VoiceRecognition.get_yes_no_response on the input response:
\* "yes", "no", or "again" when the loop asks once more.
YesNoResponse(response) ==
    IF response # NoneVal
    THEN IF Contains(Lower(response), "yes") THEN "yes"
         ELSE IF Contains(Lower(response), "no") THEN "no"
         ELSE "again"
    ELSE "again"

\* The values get_voice_input can return to the capture of each field
CaptureResults ==
    [f \in {"name", "notes", "category"} |->
        {GetVoiceInput(raw) : raw \in CaptureInputs(f)}]

\* The outcomes of one round of get_yes_no_response
AnswerResults ==
    {YesNoResponse(GetVoiceInput(raw)) : raw \in AnswerInputs}

(***************************************************************************)
(* The stores                                                              *)
(***************************************************************************)
\* Database.store_notes: INSERT with an AUTOINCREMENT id
StoreNotes(rows, n, t, c) ==
    Append(rows, [id |-> Len(rows) + 1, name |-> n, notes |-> t,
                  category |-> c])

\* Python's None as a value that can be compared with the two below
PyNone == [kind |-> "None"]

\* A Python int
PyInt(i) == [kind |-> "int", value |-> i]

\* A Python tuple
PyTuple(items) == [kind |-> "tuple", items |-> items]

\* Database.get_id: fetchone() of SELECT id ... WHERE name = ?, which is the
\* row (id,) of the first row with that name, a one-tuple, or None
GetId(rows, n) ==
    IF \E i \in 1..Len(rows) : rows[i].name = n
    THEN LET i == CHOOSE j \in 1..Len(rows) :
                      /\ rows[j].name = n
                      /\ \A k \in 1..(j - 1) : rows[k].name # n
         IN  PyTuple(<< rows[i].id >>)
    ELSE PyNone

\* FaceDatabase.add_face, lines 73-74: the in-memory lists
AddFace(db, encoding, i) ==
    Append(db, [encoding |-> encoding, id |-> i])

\* The lists of unknown faces a frame can show: no person twice.
FaceLists ==
    {<< >>} \cup {<< f >> : f \in Faces}
            \cup UNION {{<< f, g >> : g \in Faces \ {f}} : f \in Faces}

\* What the recognition of a frame can report as unknown.
Recognizable ==
    IF Len(face_notes) < MaxRecords /\ Len(face_db) < MaxRecords
    THEN FaceLists
    ELSE {<< >>}

NoConfirmed == [name |-> NoneVal, notes |-> NoneVal, category |-> NoneVal]

\* No file at the path save_audio writes (voice_activation.py:166, 171)
NoFile == [call |-> 0, frames |-> << >>]

(***************************************************************************)
(* Init: the state after IntegratedFaceVoiceSystem.__init__, with both     *)
(* threads at the head of their loops.  On a machine without any input     *)
(* device VoiceActivation.__init__ does not return: find_airpods_device    *)
(* finds no device of the wanted name and get_default_input_device_info    *)
(* (voice_activation.py:45) raises, through main.py:24 and main.py:418;    *)
(* the process ends before run, written "crashed".                         *)
(***************************************************************************)
Init ==
    /\ listening_for_wake_word = TRUE
    /\ registration_mode = FALSE
    /\ start_registration_requested = FALSE
    /\ unknown_faces = << >>
    /\ lock = "none"
    /\ wake_word_listening = FALSE
    /\ current_display = FALSE
    /\ last_broadcast = FALSE
    /\ \E input_device \in BOOLEAN :
          IF input_device
          THEN /\ running = TRUE
               /\ vpc = "poll"
               /\ mpc = "frame"
               /\ spc = "poll"
          ELSE /\ running = FALSE
               /\ vpc = "crashed"
               /\ mpc = "crashed"
               /\ spc = "crashed"
    /\ dpc = "idle"
    /\ face_to_register = NoneVal
    /\ field = "none"
    /\ captured = NoneVal
    /\ name = ""
    /\ notes = ""
    /\ category = ""
    /\ id = PyNone
    /\ face_notes = << >>
    /\ face_db = << >>
    /\ uploads = << >>
    /\ dialogs = 0
    /\ confirmed = NoConfirmed
    /\ rows0 = 0
    /\ faces0 = 0
    /\ success = FALSE
    /\ outcome = "none"
    /\ stream = "none"
    /\ open_streams = 0
    /\ speech_detected = FALSE
    /\ audio_buffer = << >>
    /\ lpc = "idle"
    /\ listens = 0
    /\ closes = 0
    /\ frames = << >>
    /\ segments = << >>
    /\ heard = << >>
    /\ result = "none"
    /\ flushed = << >>
    /\ scratch = NoFile
    /\ va_lock = "none"
    /\ posted = << >>
    /\ response_text = NoneVal

(***************************************************************************)
(* The coordinator thread, voice_listener_thread                           *)
(***************************************************************************)
\* ShouldListen without the test of registration_mode
ShouldListen_IgnoresMode ==
    /\ listening_for_wake_word
    /\ Len(unknown_faces) > 0

\* main.py:73, should_listen
ShouldListen ==
    /\ listening_for_wake_word
    /\ ~registration_mode
    /\ Len(unknown_faces) > 0

\* VoicePoll for a coordinator whose loop is  while True
VoicePoll_IgnoresRunning ==
    /\ vpc = "poll"
    /\ current_display' = wake_word_listening
    /\ vpc' = "acquire"
    /\ UNCHANGED << sharedVars, running, wake_word_listening, last_broadcast,
                    mpc, face_to_register, dialogVars, storeVars, dialogs,
                    outcome >>
    /\ UNCHANGED << stream, detectorVars, backgroundVars, response_text >>

\* main.py:63-67: the loop test and the unlocked read of the display state
VoicePoll ==
    /\ vpc = "poll"
    /\ IF running
       THEN /\ current_display' = wake_word_listening
            /\ vpc' = "acquire"
       ELSE /\ vpc' = "exited"
            /\ UNCHANGED current_display
    /\ UNCHANGED << sharedVars, running, wake_word_listening, last_broadcast,
                    mpc, face_to_register, dialogVars, storeVars, dialogs,
                    outcome >>
    /\ UNCHANGED << stream, detectorVars, backgroundVars, response_text >>

\* VoiceEnter for a coordinator that abandons a request itself when it finds
\* no unknown face left
VoiceEnter_Abandons ==
    /\ vpc = "acquire"
    /\ lock = "none"
    /\ wake_word_listening' = IF ShouldListen # current_display
                              THEN ShouldListen
                              ELSE wake_word_listening
    /\ last_broadcast' = IF ShouldListen # current_display
                         THEN ShouldListen
                         ELSE last_broadcast
    /\ IF ShouldListen
       THEN /\ lock' = "voice"
            /\ vpc' = "listening"
       ELSE /\ lock' = "none"
            /\ vpc' = "sleep"
    /\ IF start_registration_requested /\ Len(unknown_faces) = 0
       THEN /\ start_registration_requested' = FALSE
            /\ registration_mode' = FALSE
            /\ listening_for_wake_word' = TRUE
       ELSE UNCHANGED << listening_for_wake_word, registration_mode,
                         start_registration_requested >>
    /\ UNCHANGED << unknown_faces, running, current_display, mpc,
                    face_to_register, dialogVars, storeVars, dialogs, outcome >>
    /\ UNCHANGED << stream, detectorVars, backgroundVars, response_text >>

\* VoiceEnter for a coordinator that publishes should_listen in every
\* iteration
VoiceEnter_PublishesAlways ==
    /\ vpc = "acquire"
    /\ lock = "none"
    /\ wake_word_listening' = ShouldListen
    /\ last_broadcast' = ShouldListen
    /\ IF ShouldListen
       THEN /\ lock' = "voice"
            /\ vpc' = "listening"
       ELSE /\ lock' = "none"
            /\ vpc' = "sleep"
    /\ UNCHANGED << listening_for_wake_word, registration_mode,
                    start_registration_requested, unknown_faces, running,
                    current_display, mpc, face_to_register, dialogVars,
                    storeVars, dialogs, outcome >>
    /\ UNCHANGED << stream, detectorVars, backgroundVars, response_text >>

\* main.py:72-90: the with block is entered, should_listen is computed and
\* published when it differs from the value read at line 67 (update_status
\* assigns the display's field, ar_display.py:135-136, before anything in it
\* could raise into line 83), and the test of line 90 either enters
\* listen_for_wake_word with the lock held or leaves the with block.
VoiceEnter ==
    /\ vpc = "acquire"
    /\ lock = "none"
    /\ wake_word_listening' = IF ShouldListen # current_display
                              THEN ShouldListen
                              ELSE wake_word_listening
    /\ last_broadcast' = IF ShouldListen # current_display
                         THEN ShouldListen
                         ELSE last_broadcast
    /\ IF ShouldListen
       THEN /\ lock' = "voice"
            /\ vpc' = "listening"
       ELSE /\ lock' = "none"
            /\ vpc' = "sleep"
    /\ UNCHANGED << listening_for_wake_word, registration_mode,
                    start_registration_requested, unknown_faces, running,
                    current_display, mpc, face_to_register, dialogVars,
                    storeVars, dialogs, outcome >>
    /\ UNCHANGED << stream, detectorVars, backgroundVars, response_text >>

\* RequestRegistration without line 99
RequestRegistration_KeepsListening ==
    IF ~registration_mode /\ Len(unknown_faces) > 0
    THEN /\ registration_mode' = TRUE
         /\ start_registration_requested' = TRUE
         /\ UNCHANGED listening_for_wake_word
    ELSE UNCHANGED << listening_for_wake_word, registration_mode,
                      start_registration_requested >>

\* main.py:98-105: the re-validation and the request, in the with block
RequestRegistration ==
    IF ~registration_mode /\ Len(unknown_faces) > 0
    THEN /\ listening_for_wake_word' = FALSE
         /\ registration_mode' = TRUE
         /\ start_registration_requested' = TRUE
    ELSE UNCHANGED << listening_for_wake_word, registration_mode,
                      start_registration_requested >>

\* main.py:93 with voice_activation.py:94-97: listen_for_wake_word finds no
\* stream and calls initialize_audio_stream.  When the device cannot be
\* opened it returns False at once, the test of line 93 fails and the with
\* block is left; otherwise the listen window starts.
VoiceOpenStream ==
    /\ vpc = "listening"
    /\ lock = "voice"
    /\ stream = "none"
    /\ \E opened \in BOOLEAN :
          IF opened
          THEN /\ stream' = "open"
               /\ UNCHANGED << lock, vpc >>
          ELSE /\ lock' = "none"
               /\ vpc' = "sleep"
               /\ UNCHANGED stream
    /\ UNCHANGED << listening_for_wake_word, registration_mode,
                    start_registration_requested, unknown_faces, running,
                    wake_word_listening, current_display, last_broadcast,
                    mpc, face_to_register, dialogVars, storeVars, dialogs,
                    outcome, detectorVars, backgroundVars, response_text >>

\* main.py:93-106 with voice_activation.py:99-164: the listen window runs on
\* the open stream and listen_for_wake_word returns detected to the
\* coordinator, which still holds the lock; a detection drops the stream
\* (reset_state, line 129 or 152).  The with block is left.
VoiceWakeWord ==
    /\ vpc = "listening"
    /\ lock = "voice"
    /\ stream = "open"
    /\ \E detected \in BOOLEAN :
          IF detected
          THEN /\ RequestRegistration
               /\ stream' = "none"
          ELSE UNCHANGED << listening_for_wake_word, registration_mode,
                            start_registration_requested, stream >>
    /\ lock' = "none"
    /\ vpc' = "sleep"
    /\ UNCHANGED << unknown_faces, running, wake_word_listening,
                    current_display, last_broadcast, mpc, face_to_register,
                    dialogVars, storeVars, dialogs, outcome, detectorVars,
                    backgroundVars, response_text >>

\* VoiceRaise for a coordinator that takes the lock with acquire() and
\* release() and no try / finally: the exception skips the release
VoiceRaise_KeepsLock ==
    /\ vpc = "listening"
    /\ lock = "voice"
    /\ vpc' = "backoff"
    /\ UNCHANGED << sharedVars, running, wake_word_listening, current_display,
                    last_broadcast, mpc, face_to_register, dialogVars,
                    storeVars, dialogs, outcome >>
    /\ UNCHANGED << stream, detectorVars, backgroundVars, response_text >>

\* main.py:113-117: a statement of the with block raises outside the try of
\* lines 81-84 and outside listen_for_wake_word, which catches its own
\* errors (the print of line 78 or 91 on a closed stdout).  The with
\* statement releases the lock, the handler of line 113 logs and sleeps one
\* second ("backoff"), and the loop goes on.
VoiceRaise ==
    /\ vpc = "listening"
    /\ lock = "voice"
    /\ lock' = "none"
    /\ vpc' = "backoff"
    /\ UNCHANGED << listening_for_wake_word, registration_mode,
                    start_registration_requested, unknown_faces, running,
                    wake_word_listening, current_display, last_broadcast,
                    mpc, face_to_register, dialogVars, storeVars, dialogs,
                    outcome >>
    /\ UNCHANGED << stream, detectorVars, backgroundVars, response_text >>

\* main.py:110, 117: the sleep ends
VoiceSleep ==
    /\ vpc \in {"sleep", "backoff"}
    /\ vpc' = "poll"
    /\ UNCHANGED << sharedVars, running, wake_word_listening, current_display,
                    last_broadcast, mpc, face_to_register, dialogVars,
                    storeVars, dialogs, outcome >>
    /\ UNCHANGED << stream, detectorVars, backgroundVars, response_text >>

(***************************************************************************)
(* The main loop, run                                                      *)
(***************************************************************************)
\* main.py:315-318: no frame yet, the iteration is skipped
MainFrameNone ==
    /\ mpc = "frame"
    /\ UNCHANGED vars

\* MainUpdateUnknown without the with statement of line 331
MainUpdateUnknown_Unlocked ==
    /\ mpc = "frame"
    /\ \E faces \in Recognizable : unknown_faces' = faces
    /\ mpc' = "events"
    /\ UNCHANGED << listening_for_wake_word, registration_mode,
                    start_registration_requested, lock, running,
                    wake_word_listening, voiceVars, face_to_register,
                    dialogVars, storeVars, dialogs, outcome >>
    /\ UNCHANGED << stream, detectorVars, backgroundVars, response_text >>

\* main.py:315-332: a frame is read, its faces are detected and recognised,
\* and the unknown ones are stored under the lock
MainUpdateUnknown ==
    /\ mpc = "frame"
    /\ lock = "none"
    /\ \E faces \in Recognizable : unknown_faces' = faces
    /\ mpc' = "events"
    /\ UNCHANGED << listening_for_wake_word, registration_mode,
                    start_registration_requested, lock, running,
                    wake_word_listening, voiceVars, face_to_register,
                    dialogVars, storeVars, dialogs, outcome >>
    /\ UNCHANGED << stream, detectorVars, backgroundVars, response_text >>

\* main.py:335-340: the display is updated and no quit event is pending
MainEvents ==
    /\ mpc = "events"
    /\ mpc' = "check"
    /\ UNCHANGED << sharedVars, running, wake_word_listening, voiceVars,
                    face_to_register, dialogVars, storeVars, dialogs, outcome >>
    /\ UNCHANGED << stream, detectorVars, backgroundVars, response_text >>

\* main.py:339-340 and 386-387: process_events reports a quit event
MainQuit ==
    /\ mpc = "events"
    /\ mpc' = "exited"
    /\ running' = FALSE
    /\ UNCHANGED << sharedVars, wake_word_listening, voiceVars,
                    face_to_register, dialogVars, storeVars, dialogs, outcome >>
    /\ UNCHANGED << stream, detectorVars, backgroundVars, response_text >>

\* AbandonRequest without line 355
AbandonRequest_KeepsMode ==
    /\ start_registration_requested' = FALSE
    /\ listening_for_wake_word' = TRUE
    /\ UNCHANGED registration_mode

\* AbandonRequest without line 354
AbandonRequest_KeepsRequest ==
    /\ registration_mode' = FALSE
    /\ listening_for_wake_word' = TRUE
    /\ UNCHANGED start_registration_requested

\* AbandonRequest without line 356
AbandonRequest_KeepsListeningOff ==
    /\ start_registration_requested' = FALSE
    /\ registration_mode' = FALSE
    /\ UNCHANGED listening_for_wake_word

\* main.py:351-356: a request with no unknown face left is abandoned
AbandonRequest ==
    /\ start_registration_requested' = FALSE
    /\ registration_mode' = FALSE
    /\ listening_for_wake_word' = TRUE

\* CopyOfFirst for a request check that takes the face detected last
CopyOfFirst_TakesLast(faces) == faces[Len(faces)]

\* main.py:350, self.unknown_faces[0].copy(): a face stands for its box and
\* encoding, so the copy is the value
CopyOfFirst(faces) == faces[1]

\* MainCheckRequest without line 348
MainCheckRequest_KeepsRequest ==
    /\ mpc = "check"
    /\ lock = "none"
    /\ IF start_registration_requested /\ Len(unknown_faces) > 0
       THEN /\ face_to_register' = CopyOfFirst(unknown_faces)
            /\ outcome' = "captured"
            /\ mpc' = "start"
            /\ UNCHANGED << start_registration_requested, registration_mode,
                            listening_for_wake_word >>
       ELSE IF start_registration_requested
       THEN /\ AbandonRequest
            /\ face_to_register' = NoneVal
            /\ outcome' = "abandoned"
            /\ mpc' = "render"
       ELSE /\ face_to_register' = NoneVal
            /\ outcome' = "none"
            /\ mpc' = "render"
            /\ UNCHANGED << start_registration_requested, registration_mode,
                            listening_for_wake_word >>
    /\ UNCHANGED << unknown_faces, lock, running, wake_word_listening,
                    voiceVars, dialogVars, storeVars, dialogs >>
    /\ UNCHANGED << stream, detectorVars, backgroundVars, response_text >>

\* main.py:344-360: the request flag is inspected under the lock
MainCheckRequest ==
    /\ mpc = "check"
    /\ lock = "none"
    /\ IF start_registration_requested /\ Len(unknown_faces) > 0
       THEN /\ start_registration_requested' = FALSE
            /\ face_to_register' = CopyOfFirst(unknown_faces)
            /\ outcome' = "captured"
            /\ mpc' = "start"
            /\ UNCHANGED << registration_mode, listening_for_wake_word >>
       ELSE IF start_registration_requested
       THEN /\ AbandonRequest
            /\ face_to_register' = NoneVal
            /\ outcome' = "abandoned"
            /\ mpc' = "render"
       ELSE /\ face_to_register' = NoneVal
            /\ outcome' = "none"
            /\ mpc' = "render"
            /\ UNCHANGED << start_registration_requested, registration_mode,
                            listening_for_wake_word >>
    /\ UNCHANGED << unknown_faces, lock, running, wake_word_listening,
                    voiceVars, dialogVars, storeVars, dialogs >>
    /\ UNCHANGED << stream, detectorVars, backgroundVars, response_text >>

\* MainStartRegistration with register_new_face started on a thread of its
\* own, the way line 276 starts the upload: run does not wait for the dialog
MainStartRegistration_Detached ==
    /\ mpc = "start"
    /\ wake_word_listening' = FALSE
    /\ dialogs' = dialogs + 1
    /\ field' = "name"
    /\ captured' = NoneVal
    /\ name' = ""
    /\ notes' = ""
    /\ category' = ""
    /\ id' = PyNone
    /\ confirmed' = NoConfirmed
    /\ rows0' = Len(face_notes)
    /\ faces0' = Len(face_db)
    /\ success' = FALSE
    /\ dpc' = "capture"
    /\ mpc' = "render"
    /\ UNCHANGED << sharedVars, running, voiceVars, face_to_register,
                    storeVars, outcome >>
    /\ UNCHANGED << stream, detectorVars, backgroundVars, response_text >>

\* main.py:360-367 and 213-229: the registration UI is started and
\* register_new_face is entered.  The snapshot is a copy of an element of
\* recognize_faces' result, which always has a box and an encoding
\* (detect_and_recognition.py:131), so the early return of line 220 is not
\* taken.
MainStartRegistration ==
    /\ mpc = "start"
    /\ wake_word_listening' = FALSE
    /\ dialogs' = dialogs + 1
    /\ field' = "name"
    /\ captured' = NoneVal
    /\ name' = ""
    /\ notes' = ""
    /\ category' = ""
    /\ id' = PyNone
    /\ confirmed' = NoConfirmed
    /\ rows0' = Len(face_notes)
    /\ faces0' = Len(face_db)
    /\ success' = FALSE
    /\ dpc' = "capture"
    /\ mpc' = "dialog"
    /\ UNCHANGED << sharedVars, running, voiceVars, face_to_register,
                    storeVars, outcome >>
    /\ UNCHANGED << stream, detectorVars, backgroundVars, response_text >>

\* main.py:370-373: listening is switched on again after the dialog
MainAfterDialog ==
    /\ mpc = "returned"
    /\ lock = "none"
    /\ listening_for_wake_word' = TRUE
    /\ mpc' = "render"
    /\ UNCHANGED << registration_mode, start_registration_requested,
                    unknown_faces, lock, running, wake_word_listening,
                    voiceVars, face_to_register, dialogVars, storeVars,
                    dialogs, outcome >>
    /\ UNCHANGED << stream, detectorVars, backgroundVars, response_text >>

\* main.py:377-381
MainRender ==
    /\ mpc = "render"
    /\ mpc' = "frame"
    /\ UNCHANGED << sharedVars, running, wake_word_listening, voiceVars,
                    face_to_register, dialogVars, storeVars, dialogs, outcome >>
    /\ UNCHANGED << stream, detectorVars, backgroundVars, response_text >>

\* main.py:384-387: a call of the loop body outside register_new_face's try
\* block raises (camera, recognition, display, or update_status at line 298);
\* the loop is left and running is cleared.  The main thread holds the lock at
\* none of these places.
MainLoopError ==
    /\ \/ mpc \in {"frame", "events", "start", "render"}
       \/ mpc = "dialog" /\ dpc = "status"
    /\ mpc' = "exited"
    /\ running' = FALSE
    /\ dpc' = "idle"
    /\ dialogs' = IF mpc = "dialog" THEN dialogs - 1 ELSE dialogs
    /\ UNCHANGED << sharedVars, wake_word_listening, voiceVars,
                    face_to_register, dialogLocals, storeVars, outcome >>
    /\ UNCHANGED << stream, detectorVars, backgroundVars, response_text >>

(***************************************************************************)
(* The registration dialog, register_new_face, on the main thread          *)
(***************************************************************************)
\* Python's  v or d
OrDefault(v, d) == IF v = NoneVal \/ v = "" THEN d ELSE v

\* Accepted for prompts that put an empty transcript to the user
Accepted_AllowsEmpty(v) == v # NoneVal

\* voice_recognition.py:196, 215, 230: the test a captured transcript must
\* pass to be put to the user
Accepted(v) == v # NoneVal /\ v # ""

\* DialogCapture for a prompt that hands a failed capture of the name on to
\* register_new_face's local
DialogCapture_KeepsFailedName ==
    /\ dpc = "capture"
    /\ \E v \in CaptureResults[field] :
          /\ captured' = v
          /\ dpc' = IF Accepted(v) THEN "confirm" ELSE "capture"
          /\ name' = IF field = "name" /\ ~Accepted(v) THEN v ELSE name
    /\ UNCHANGED << sharedVars, running, wake_word_listening, voiceVars, mpc,
                    face_to_register, field, notes, category, id,
                    confirmed, rows0, faces0, success, storeVars, dialogs,
                    outcome >>
    /\ UNCHANGED << stream, detectorVars, backgroundVars, response_text >>

\* voice_recognition.py:192-199 (name), 212-217 (notes), 227-233 (category):
\* one capture of the prompt loop: the result of get_voice_input is bound to
\* the prompt's local; a rejected capture ("Transcription failed") loops back
DialogCapture ==
    /\ dpc = "capture"
    /\ \E v \in CaptureResults[field] :
          /\ captured' = v
          /\ dpc' = IF Accepted(v) THEN "confirm" ELSE "capture"
    /\ UNCHANGED << sharedVars, running, wake_word_listening, voiceVars, mpc,
                    face_to_register, field, name, notes, category, id,
                    confirmed, rows0, faces0, success, storeVars, dialogs,
                    outcome >>
    /\ UNCHANGED << stream, detectorVars, backgroundVars, response_text >>

\* PromptReturn for a dialog that asks for the category before the notes
PromptReturn_CategoryFirst(v) ==
    /\ confirmed' = [confirmed EXCEPT ![field] = v]
    /\ name' = IF field = "name" THEN v ELSE name
    /\ notes' = IF field = "notes" THEN OrDefault(v, "") ELSE notes
    /\ category' = IF field = "category"
                   THEN OrDefault(OrDefault(v, "Other"), "Other")
                   ELSE category
    /\ field' = CASE field = "name" -> "category"
                  [] field = "category" -> "notes"
                  [] field = "notes" -> "none"
    /\ dpc' = IF field = "notes" THEN "store" ELSE "capture"
    /\ captured' = NoneVal

\* main.py:229, 252, 261: the value the prompt returns is bound to the local
\* of the field, with the defaults of lines 252 and 261 and of
\* voice_recognition.py:236.  prompt_for_name returns only transcripts that
\* passed line 196, so the abort of main.py:232-241 is not taken.
PromptReturn(v) ==
    /\ confirmed' = [confirmed EXCEPT ![field] = v]
    /\ name' = IF field = "name" THEN v ELSE name
    /\ notes' = IF field = "notes" THEN OrDefault(v, "") ELSE notes
    /\ category' = IF field = "category"
                   THEN OrDefault(OrDefault(v, "Other"), "Other")
                   ELSE category
    /\ field' = CASE field = "name" -> "notes"
                  [] field = "notes" -> "category"
                  [] field = "category" -> "none"
    /\ dpc' = IF field = "category" THEN "store" ELSE "capture"
    /\ captured' = NoneVal

\* voice_recognition.py:200, 218, 234 with 242-258: one answer to the
\* confirmation question
DialogConfirm ==
    /\ dpc = "confirm"
    /\ \E answer \in AnswerResults :
          CASE answer = "yes" -> PromptReturn(captured)
            [] answer = "no" ->
                  /\ dpc' = "capture"
                  /\ captured' = NoneVal
                  /\ UNCHANGED << field, name, notes, category, confirmed >>
            [] OTHER ->
                  UNCHANGED << dpc, captured, field, name, notes, category,
                               confirmed >>
    /\ UNCHANGED << sharedVars, running, wake_word_listening, voiceVars, mpc,
                    face_to_register, id, rows0, faces0, success, storeVars,
                    dialogs, outcome >>
    /\ UNCHANGED << stream, detectorVars, backgroundVars, response_text >>

\* main.py:262-271 with voice_recognition.py:182-188: store_voice_notes; a
\* failure of store_notes is caught there and the dialog goes on
DialogStoreNotes ==
    /\ dpc = "store"
    /\ \E stored \in BOOLEAN :
          face_notes' = IF stored
                        THEN StoreNotes(face_notes, name, notes, category)
                        ELSE face_notes
    /\ dpc' = "get_id"
    /\ UNCHANGED << sharedVars, running, wake_word_listening, voiceVars, mpc,
                    face_to_register, dialogLocals, face_db, uploads, dialogs,
                    outcome >>
    /\ UNCHANGED << stream, detectorVars, backgroundVars, response_text >>

\* main.py:272
DialogGetId ==
    /\ dpc = "get_id"
    /\ id' = GetId(face_notes, name)
    /\ dpc' = "add_face"
    /\ UNCHANGED << sharedVars, running, wake_word_listening, voiceVars, mpc,
                    face_to_register, field, captured, name, notes, category,
                    confirmed, rows0, faces0, success, storeVars, dialogs,
                    outcome >>
    /\ UNCHANGED << stream, detectorVars, backgroundVars, response_text >>

\* main.py:274 with detect_and_recognition.py:72-75: the entry is appended to
\* the lists, then save() writes the file; when save() raises, the except
\* block of line 284 is entered with the entry appended
DialogAddFace ==
    /\ dpc = "add_face"
    /\ face_db' = AddFace(face_db, face_to_register, id)
    /\ \E saved \in BOOLEAN :
          dpc' = IF saved THEN "upload" ELSE "finally"
    /\ UNCHANGED << sharedVars, running, wake_word_listening, voiceVars, mpc,
                    face_to_register, dialogLocals, face_notes, uploads,
                    dialogs, outcome >>
    /\ UNCHANGED << stream, detectorVars, backgroundVars, response_text >>

\* main.py:276-281: the upload task is started and success is notified
DialogUpload ==
    /\ dpc = "upload"
    /\ uploads' = Append(uploads, << name, notes, category >>)
    /\ success' = TRUE
    /\ dpc' = "finally"
    /\ UNCHANGED << sharedVars, running, wake_word_listening, voiceVars, mpc,
                    face_to_register, field, captured, name, notes, category,
                    id, confirmed, rows0, faces0, face_notes, face_db,
                    dialogs, outcome >>
    /\ UNCHANGED << stream, detectorVars, backgroundVars, response_text >>

\* main.py:284-291: a call of the try block raises (a display call of lines
\* 224-268, a prompt, get_id); the except block notifies and falls through
DialogRaise ==
    /\ dpc \in {"capture", "confirm", "store", "get_id"}
    /\ dpc' = "finally"
    /\ UNCHANGED << sharedVars, running, wake_word_listening, voiceVars, mpc,
                    face_to_register, dialogLocals, storeVars, dialogs, outcome >>
    /\ UNCHANGED << stream, detectorVars, backgroundVars, response_text >>

\* DialogFinally without line 295
DialogFinally_KeepsMode ==
    /\ dpc = "finally"
    /\ lock = "none"
    /\ listening_for_wake_word' = TRUE
    /\ dpc' = "status"
    /\ UNCHANGED << registration_mode, start_registration_requested,
                    unknown_faces, lock, running, wake_word_listening,
                    voiceVars, mpc, face_to_register, dialogLocals, storeVars,
                    dialogs, outcome >>
    /\ UNCHANGED << stream, detectorVars, backgroundVars, response_text >>

\* main.py:292-297: the finally block resets the flags under the lock
DialogFinally ==
    /\ dpc = "finally"
    /\ lock = "none"
    /\ registration_mode' = FALSE
    /\ listening_for_wake_word' = TRUE
    /\ dpc' = "status"
    /\ UNCHANGED << start_registration_requested, unknown_faces, lock,
                    running, wake_word_listening, voiceVars, mpc,
                    face_to_register, dialogLocals, storeVars, dialogs,
                    outcome >>
    /\ UNCHANGED << stream, detectorVars, backgroundVars, response_text >>

\* main.py:298: update_status(voice_active=False), and the return to run,
\* which ends the life of the dialog's locals
DialogReturn ==
    /\ dpc = "status"
    /\ dpc' = "idle"
    /\ mpc' = IF mpc = "dialog" THEN "returned" ELSE mpc
    /\ dialogs' = dialogs - 1
    /\ field' = "none"
    /\ captured' = NoneVal
    /\ name' = ""
    /\ notes' = ""
    /\ category' = ""
    /\ id' = PyNone
    /\ confirmed' = NoConfirmed
    /\ rows0' = 0
    /\ faces0' = 0
    /\ success' = FALSE
    /\ UNCHANGED << sharedVars, running, wake_word_listening, voiceVars,
                    face_to_register, storeVars, outcome >>
    /\ UNCHANGED << stream, detectorVars, backgroundVars, response_text >>

(***************************************************************************)
(* The sync thread, sync_thread, and the upload tasks,                     *)
(* send_new_face_to_server, each on a thread of its own                    *)
(***************************************************************************)
\* What the request of line 130 can bring: an error (requests.get or
\* response.json raises, or an entry lacks a key), no update (a status other
\* than 200, or an empty list), or a list of entries.
SyncReplies ==
    { [ok |-> FALSE, data |-> << >>],
      [ok |-> TRUE, data |-> << >>],
      [ok |-> TRUE, data |-> << [id |-> 1, name |-> "Alice", notes |-> "tall",
                                 category |-> "friend"] >>] }

\* Database.edit: UPDATE face_notes SET ... WHERE id = ?
Edit(rows, i, n, t, c) ==
    [k \in 1..Len(rows) |->
        IF rows[k].id = i
        THEN [id |-> i, name |-> n, notes |-> t, category |-> c]
        ELSE rows[k]]

RECURSIVE EditAll(_, _)
\* main.py:141-148: the entries are applied in order
EditAll(rows, data) ==
    IF data = << >> THEN rows
    ELSE EditAll(Edit(rows, data[1].id, data[1].name, data[1].notes,
                      data[1].category),
                 Tail(data))

\* main.py:127-165, one iteration up to its sleep: the loop test, the request
\* and the edits, then the sleep of line 160 ("wait"), or the handler of line
\* 163 and its sleep ("retry")
SyncCheck ==
    /\ spc = "poll"
    /\ IF running
       THEN \E reply \in SyncReplies :
               IF reply.ok
               THEN /\ face_notes' = EditAll(face_notes, reply.data)
                    /\ spc' = "wait"
               ELSE /\ spc' = "retry"
                    /\ UNCHANGED face_notes
       ELSE /\ spc' = "exited"
            /\ UNCHANGED face_notes
    /\ UNCHANGED << sharedVars, running, wake_word_listening, voiceVars, mpc,
                    face_to_register, dialogVars, face_db, uploads, dialogs,
                    outcome, posted >>
    /\ UNCHANGED << stream, detectorVars, response_text >>

\* main.py:160, 165: the sleep ends
SyncSleep ==
    /\ spc \in {"wait", "retry"}
    /\ spc' = "poll"
    /\ UNCHANGED << sharedVars, running, wake_word_listening, voiceVars, mpc,
                    face_to_register, dialogVars, storeVars, dialogs, outcome,
                    posted >>
    /\ UNCHANGED << stream, detectorVars, response_text >>

\* main.py:168-210: an upload task started at line 276 runs to its end; it
\* returns True, or False after a status other than 200 or an exception,
\* which line 208 catches
SendNewFaceToServer ==
    /\ Len(posted) < Len(uploads)
    /\ \E sent \in BOOLEAN :
          posted' = Append(posted, IF sent THEN "sent" ELSE "failed")
    /\ UNCHANGED << sharedVars, running, wake_word_listening, voiceVars, mpc,
                    face_to_register, dialogVars, storeVars, dialogs, outcome,
                    spc >>
    /\ UNCHANGED << stream, detectorVars, response_text >>

(***************************************************************************)
(* The system                                                              *)
(***************************************************************************)
VoiceNext ==
    \/ VoicePoll
    \/ VoiceEnter
    \/ VoiceOpenStream
    \/ VoiceWakeWord
    \/ VoiceRaise
    \/ VoiceSleep

MainNext ==
    \/ MainFrameNone
    \/ MainUpdateUnknown
    \/ MainEvents
    \/ MainQuit
    \/ MainCheckRequest
    \/ MainStartRegistration
    \/ MainAfterDialog
    \/ MainRender
    \/ MainLoopError

DialogNext ==
    \/ DialogCapture
    \/ DialogConfirm
    \/ DialogStoreNotes
    \/ DialogGetId
    \/ DialogAddFace
    \/ DialogUpload
    \/ DialogRaise
    \/ DialogFinally
    \/ DialogReturn

Next == VoiceNext \/ MainNext \/ DialogNext

Spec == Init /\ [][Next]_vars

(***************************************************************************)
(* Fairness: both threads keep running.  The coordinator sleeps 0.2 s      *)
(* outside the lock in every iteration (main.py:110), so a main thread     *)
(* waiting for the lock gets it; the camera delivers frames; the user      *)
(* eventually gives a transcribable answer and eventually says yes.        *)
(* Quit events and errors that end the main loop are not forced.           *)
(***************************************************************************)
\* The steps by which the main thread goes on: every step of run and of the
\* dialog except frame misses, quit events, errors and rejected captures.
MainProgress ==
    \/ MainUpdateUnknown
    \/ MainEvents
    \/ MainCheckRequest
    \/ MainStartRegistration
    \/ MainAfterDialog
    \/ MainRender
    \/ DialogCapture /\ dpc' = "confirm"
    \/ DialogConfirm /\ dpc' # "confirm"
    \/ DialogStoreNotes
    \/ DialogGetId
    \/ DialogAddFace
    \/ DialogUpload
    \/ DialogFinally
    \/ DialogReturn

Fairness ==
    /\ WF_vars(VoiceNext)
    /\ SF_vars(MainProgress)
    /\ SF_vars(DialogConfirm /\ field' # field)

LiveSpec == Init /\ [][Next]_vars /\ Fairness

(***************************************************************************)
(* The system with its background threads: the sync thread and the upload  *)
(* tasks run beside the coordinator, the main loop and the dialog.  They   *)
(* take no lock; the sync thread writes face_notes through a connection of *)
(* its own (main.py:126).                                                  *)
(***************************************************************************)
SyncNext ==
    \/ SyncCheck
    \/ SyncSleep

SystemNext == Next \/ SyncNext \/ SendNewFaceToServer

SystemSpec == Init /\ [][SystemNext]_vars

\* The sync thread keeps running as well
SystemFairness == Fairness /\ WF_vars(SyncNext)

SystemLiveSpec == Init /\ [][SystemNext]_vars /\ SystemFairness

(***************************************************************************)
(* The wake-word detector, VoiceActivation, frame by frame: a session of   *)
(* listen_for_wake_word calls and close() on one VoiceActivation object    *)
(***************************************************************************)
\* Chunks one listen window reads at most; the window is a time span
\* (voice_activation.py:100, 108) and may end after any number of them.
MaxFrames == 4

\* Calls of listen_for_wake_word in a session.
MaxListens == 2

\* Calls of close() in a session.
MaxCloses == 2

\* What a read of the stream yields: a chunk the classifier calls speech, one
\* it calls silence, or no usable chunk (a read error, caught at line 140, or
\* a chunk of the wrong length, line 70).
FrameKinds == {"speech", "silence", "bad"}

\* What client.recognize can do (line 196): raise, or return the results'
\* first alternatives, one per portion of the audio.
Responses ==
    { [ok |-> FALSE, results |-> << >>],
      [ok |-> TRUE, results |-> << >>],
      [ok |-> TRUE, results |-> << "hello" >>],
      [ok |-> TRUE, results |-> << "Say REGISTER me" >>],
      [ok |-> TRUE, results |-> << "hi", "register" >>] }

\* voice_activation.py:10-11, self.wake_word
va_wake_word == Lower("register")

\* VoiceActivation.transcribe_audio: the first result, lowered, or ""
TranscribeAudio(response) ==
    IF response.ok /\ Len(response.results) > 0
    THEN Lower(response.results[1])
    ELSE ""

\* WakeWordIn for a detector that wants the trigger phrase alone
WakeWordIn_WholeText(text) == Lower(text) = va_wake_word

\* voice_activation.py:126, 149: self.wake_word in text.lower()
WakeWordIn(text) == Contains(Lower(text), va_wake_word)

\* The responses after which lines 124-126 (149) report the wake word
Detecting ==
    {r \in Responses :
        TranscribeAudio(r) # "" /\ WakeWordIn(TranscribeAudio(r))}

\* The text the transcription service gave for the segment, as it gave it
SpokenText(response) ==
    IF response.ok /\ Len(response.results) > 0
    THEN response.results[1]
    ELSE ""

\* VoiceActivation.process_audio_chunk on chunk i of the given kind, with
\* self.speech_detected = sd and self.audio_buffer = buf: the two fields
\* afterwards and the value returned (<< >> for None)
ProcessAudioChunk(sd, buf, kind, i) ==
    IF kind = "bad"
    THEN [speech_detected |-> sd, audio_buffer |-> buf, out |-> << >>]
    ELSE IF kind = "speech"
    THEN [speech_detected |-> TRUE, audio_buffer |-> Append(buf, i),
          out |-> << >>]
    ELSE IF sd
    THEN IF Len(buf) > 0
         THEN [speech_detected |-> FALSE, audio_buffer |-> buf, out |-> buf]
         ELSE [speech_detected |-> FALSE, audio_buffer |-> << >>,
               out |-> << >>]
    ELSE [speech_detected |-> sd, audio_buffer |-> buf, out |-> << >>]

\* VoiceActivation.save_audio on a segment of the current call: the file at
\* the one path it writes afterwards.  saved is whether wave.open and the
\* writes went through; a failed save is taken to leave the path as it was.
SaveAudio(saved, frames_) ==
    IF saved THEN [call |-> listens, frames |-> frames_] ELSE scratch

\* ResetState without line 220
ResetState_KeepsBuffer ==
    /\ speech_detected' = FALSE
    /\ UNCHANGED audio_buffer
    /\ stream' = "none"
    /\ result' = "true"
    /\ lpc' = "idle"

\* VoiceActivation.reset_state, and the return of True
ResetState ==
    /\ speech_detected' = FALSE
    /\ audio_buffer' = << >>
    /\ stream' = "none"
    /\ result' = "true"
    /\ lpc' = "idle"

\* ListenBegin without lines 104 and 105
ListenBegin_KeepsBuffer ==
    /\ lpc = "idle"
    /\ listens < MaxListens
    /\ listens' = listens + 1
    /\ frames' = << >>
    /\ segments' = << >>
    /\ heard' = << >>
    /\ flushed' = << >>
    /\ \E opened \in BOOLEAN :
          IF stream = "none" /\ (~opened \/ closes > 0)
          THEN /\ result' = "false"
               /\ UNCHANGED << stream, open_streams, speech_detected,
                               audio_buffer, lpc >>
          ELSE /\ stream' = IF stream = "none" THEN "open" ELSE stream
               /\ open_streams' = IF stream = "none"
                                  THEN open_streams + 1
                                  ELSE open_streams
               /\ result' = "none"
               /\ lpc' = "window"
               /\ UNCHANGED << audio_buffer, speech_detected >>
    /\ UNCHANGED << closes, scratch, va_lock, systemVars >>

\* voice_activation.py:91-105: the call opens a stream when the object has
\* none (initialize_audio_stream, which fails when the device cannot be
\* opened or PortAudio was terminated by close()), and clears the buffer
ListenBegin ==
    /\ lpc = "idle"
    /\ listens < MaxListens
    /\ listens' = listens + 1
    /\ frames' = << >>
    /\ segments' = << >>
    /\ heard' = << >>
    /\ flushed' = << >>
    /\ \E opened \in BOOLEAN :
          IF stream = "none" /\ (~opened \/ closes > 0)
          THEN /\ result' = "false"
               /\ UNCHANGED << stream, open_streams, speech_detected,
                               audio_buffer, lpc >>
          ELSE /\ stream' = IF stream = "none" THEN "open" ELSE stream
               /\ open_streams' = IF stream = "none"
                                  THEN open_streams + 1
                                  ELSE open_streams
               /\ audio_buffer' = << >>
               /\ speech_detected' = FALSE
               /\ result' = "none"
               /\ lpc' = "window"
    /\ UNCHANGED << closes, scratch, va_lock, systemVars >>

\* ListenFrame without line 139
ListenFrame_KeepsBuffer ==
    /\ lpc = "window"
    /\ Len(frames) < MaxFrames
    /\ \E kind \in FrameKinds :
          /\ stream = "closed" => kind = "bad"
          /\ LET p == ProcessAudioChunk(speech_detected, audio_buffer, kind,
                                        Len(frames) + 1)
             IN  /\ frames' = Append(frames, kind)
                 /\ IF p.out = << >>
                    THEN /\ speech_detected' = p.speech_detected
                         /\ audio_buffer' = p.audio_buffer
                         /\ UNCHANGED << segments, heard, scratch, stream,
                                         result, lpc >>
                    ELSE /\ segments' = Append(segments, p.out)
                         /\ \E saved \in BOOLEAN, r \in Responses :
                               /\ scratch' = SaveAudio(saved, p.out)
                               /\ heard' = IF saved
                                           THEN Append(heard, SpokenText(r))
                                           ELSE heard
                               /\ IF saved /\ r \in Detecting
                                  THEN ResetState
                                  ELSE /\ speech_detected' = p.speech_detected
                                       /\ audio_buffer' = p.audio_buffer
                                       /\ UNCHANGED << stream, result, lpc >>
    /\ UNCHANGED << open_streams, listens, closes, flushed, va_lock,
                    systemVars >>

\* voice_activation.py:108-141, one iteration of the window's loop: a chunk
\* is read and given to process_audio_chunk; a segment it returns is saved
\* and transcribed, the wake word in its transcript ends the call with True,
\* and otherwise the buffer is cleared (line 139) and the loop goes on
ListenFrame ==
    /\ lpc = "window"
    /\ Len(frames) < MaxFrames
    /\ \E kind \in FrameKinds :
          /\ stream = "closed" => kind = "bad"
          /\ LET p == ProcessAudioChunk(speech_detected, audio_buffer, kind,
                                        Len(frames) + 1)
             IN  /\ frames' = Append(frames, kind)
                 /\ IF p.out = << >>
                    THEN /\ speech_detected' = p.speech_detected
                         /\ audio_buffer' = p.audio_buffer
                         /\ UNCHANGED << segments, heard, scratch, stream,
                                         result, lpc >>
                    ELSE /\ segments' = Append(segments, p.out)
                         /\ \E saved \in BOOLEAN, r \in Responses :
                               /\ scratch' = SaveAudio(saved, p.out)
                               /\ heard' = IF saved
                                           THEN Append(heard, SpokenText(r))
                                           ELSE heard
                               /\ IF saved /\ r \in Detecting
                                  THEN ResetState
                                  ELSE /\ speech_detected' = p.speech_detected
                                       /\ audio_buffer' = << >>
                                       /\ UNCHANGED << stream, result, lpc >>
    /\ UNCHANGED << open_streams, listens, closes, flushed, va_lock,
                    systemVars >>

\* ListenExpire without lines 144-155
ListenExpire_NoFlush ==
    /\ lpc = "window"
    /\ result' = "false"
    /\ lpc' = "idle"
    /\ UNCHANGED << heard, flushed, scratch, speech_detected, audio_buffer,
                    stream >>
    /\ UNCHANGED << open_streams, listens, closes, frames, segments,
                    va_lock, systemVars >>

\* voice_activation.py:143-164: the window has elapsed; speech still being
\* recorded is saved and transcribed, and the call returns
ListenExpire ==
    /\ lpc = "window"
    /\ IF speech_detected /\ Len(audio_buffer) > 0
       THEN \E saved \in BOOLEAN, r \in Responses :
               /\ flushed' = audio_buffer
               /\ scratch' = SaveAudio(saved, audio_buffer)
               /\ heard' = IF saved
                           THEN Append(heard, SpokenText(r))
                           ELSE heard
               /\ IF saved /\ r \in Detecting
                  THEN ResetState
                  ELSE /\ result' = "false"
                       /\ lpc' = "idle"
                       /\ UNCHANGED << speech_detected, audio_buffer, stream >>
       ELSE /\ result' = "false"
            /\ lpc' = "idle"
            /\ UNCHANGED << heard, flushed, scratch, speech_detected,
                            audio_buffer, stream >>
    /\ UNCHANGED << open_streams, listens, closes, frames, segments,
                    va_lock, systemVars >>

\* VoiceActivation.close: the stream the object refers to is stopped and
\* closed (a second time this raises, which line 212 catches) and PyAudio is
\* terminated, which closes every stream of the instance; without a stream
\* nothing is done.  run calls it after waiting one second for the
\* coordinator (main.py:391-397), so a listen window may still be running.
Close ==
    /\ closes < MaxCloses
    /\ closes' = closes + 1
    /\ IF stream # "none"
       THEN /\ stream' = "closed"
            /\ open_streams' = 0
       ELSE UNCHANGED << stream, open_streams >>
    /\ UNCHANGED << speech_detected, audio_buffer, lpc, listens, frames,
                    segments, heard, result, flushed, scratch, va_lock,
                    systemVars >>

ListenNext ==
    \/ ListenBegin
    \/ ListenFrame
    \/ ListenExpire
    \/ Close

\* A session needs a VoiceActivation object
ListenInit == Init /\ mpc = "frame"

ListenSpec == ListenInit /\ [][ListenNext]_vars

(***************************************************************************)
(* One dialog, answer by answer: register_new_face with the rounds of      *)
(* get_yes_no_response taken one by one and the response of each kept      *)
(***************************************************************************)
\* voice_recognition.py:242-258, one round inside a prompt (lines 200, 218,
\* 234): the response is obtained from get_voice_input and tested for "yes"
\* and "no"; True returns the captured value from the prompt, False goes
\* back to the capture, anything else asks again
GetYesNoResponse ==
    /\ dpc = "confirm"
    /\ \E raw \in AnswerInputs :
          /\ response_text' = GetVoiceInput(raw)
          /\ CASE YesNoResponse(GetVoiceInput(raw)) = "yes" ->
                    PromptReturn(captured)
               [] YesNoResponse(GetVoiceInput(raw)) = "no" ->
                    /\ dpc' = "capture"
                    /\ captured' = NoneVal
                    /\ UNCHANGED << field, name, notes, category, confirmed >>
               [] OTHER ->
                    UNCHANGED << dpc, captured, field, name, notes, category,
                                 confirmed >>
    /\ UNCHANGED << sharedVars, running, wake_word_listening, voiceVars, mpc,
                    face_to_register, id, rows0, faces0, success, storeVars,
                    dialogs, outcome >>
    /\ UNCHANGED << stream, detectorVars, backgroundVars >>

\* One call of register_new_face from its first prompt to its return
PromptNext ==
    \/ DialogCapture
    \/ GetYesNoResponse
    \/ DialogStoreNotes
    \/ DialogGetId
    \/ DialogAddFace
    \/ DialogUpload
    \/ DialogRaise
    \/ DialogFinally
    \/ DialogReturn

\* register_new_face has been entered for a first registration (main.py:367)
\* and stands at its first prompt; the coordinator sleeps after its request.
PromptInit ==
    /\ listening_for_wake_word = FALSE
    /\ registration_mode = TRUE
    /\ start_registration_requested = FALSE
    /\ unknown_faces = << "f1" >>
    /\ lock = "none"
    /\ running = TRUE
    /\ wake_word_listening = FALSE
    /\ vpc = "sleep"
    /\ current_display = FALSE
    /\ last_broadcast = FALSE
    /\ mpc = "dialog"
    /\ dpc = "capture"
    /\ face_to_register = "f1"
    /\ field = "name"
    /\ captured = NoneVal
    /\ name = ""
    /\ notes = ""
    /\ category = ""
    /\ id = PyNone
    /\ face_notes = << >>
    /\ face_db = << >>
    /\ uploads = << >>
    /\ dialogs = 1
    /\ confirmed = NoConfirmed
    /\ rows0 = 0
    /\ faces0 = 0
    /\ success = FALSE
    /\ outcome = "captured"
    /\ stream = "none"
    /\ open_streams = 0
    /\ speech_detected = FALSE
    /\ audio_buffer = << >>
    /\ lpc = "idle"
    /\ listens = 0
    /\ closes = 0
    /\ frames = << >>
    /\ segments = << >>
    /\ heard = << >>
    /\ result = "none"
    /\ flushed = << >>
    /\ scratch = NoFile
    /\ va_lock = "none"
    /\ spc = "poll"
    /\ posted = << >>
    /\ response_text = NoneVal

PromptSpec == PromptInit /\ [][PromptNext]_vars

(***************************************************************************)
(* The two locks: the system with listen_for_wake_word and close() taken   *)
(* lock section by lock section.  The coordinator runs the listen call     *)
(* inside its own lock section (main.py:72-106); VoiceActivation takes its *)
(* lock (voice_activation.py:25) around the opening of the stream, around  *)
(* each read, inside process_audio_chunk, in reset_state and in close(),   *)
(* which run calls at shutdown without waiting for the coordinator longer  *)
(* than a second (main.py:391-397).  What the frames hold is left to       *)
(* ListenSpec.                                                             *)
(***************************************************************************)
\* What the steps of the listen call leave alone
listenRest == << unknown_faces, running, wake_word_listening,
                 current_display, last_broadcast, mpc, face_to_register,
                 dialogVars, storeVars, dialogs, outcome, backgroundVars,
                 response_text, open_streams, speech_detected, audio_buffer,
                 listens, closes, frames, segments, heard, result, flushed,
                 scratch >>

\* main.py:93-106: listen_for_wake_word returns to the coordinator, which
\* makes the request after a detection and leaves its with block
ListenReturns(detected) ==
    /\ IF detected
       THEN RequestRegistration
       ELSE UNCHANGED << listening_for_wake_word, registration_mode,
                         start_registration_requested >>
    /\ lock' = "none"
    /\ vpc' = "sleep"
    /\ lpc' = "idle"

\* voice_activation.py:92-105: the call is entered and tests self.stream
EnterListen ==
    /\ vpc = "listening"
    /\ lock = "voice"
    /\ lpc = "idle"
    /\ lpc' = IF stream = "none" THEN "init" ELSE "read"
    /\ UNCHANGED << listening_for_wake_word, registration_mode,
                    start_registration_requested, lock, vpc, stream, va_lock,
                    listenRest >>

\* voice_activation.py:47-65 and 96-97: initialize_audio_stream opens the
\* stream inside the lock and leaves the lock section whether or not the
\* device opened; when it did not the call returns False
InitializeAudioStream ==
    /\ vpc = "listening"
    /\ lpc = "init"
    /\ va_lock = "none"
    /\ \E opened \in BOOLEAN :
          IF opened
          THEN /\ stream' = "open"
               /\ lpc' = "read"
               /\ UNCHANGED << listening_for_wake_word, registration_mode,
                               start_registration_requested, lock, vpc >>
          ELSE /\ ListenReturns(FALSE)
               /\ UNCHANGED stream
    /\ UNCHANGED << va_lock, listenRest >>

\* ReadAcquire for a window loop whose with block of line 111 reaches down
\* to the call of process_audio_chunk, which takes the lock again
ReadRelease_KeepsLock ==
    /\ vpc = "listening"
    /\ lpc = "reading"
    /\ va_lock = "voice"
    /\ \E read \in BOOLEAN :
          lpc' = IF read /\ stream = "open" THEN "chunk" ELSE "read"
    /\ UNCHANGED << listening_for_wake_word, registration_mode,
                    start_registration_requested, lock, vpc, stream, va_lock,
                    listenRest >>

\* voice_activation.py:108-111: the window has time left and the lock is
\* taken for the read
ReadAcquire ==
    /\ vpc = "listening"
    /\ lpc = "read"
    /\ va_lock = "none"
    /\ va_lock' = "voice"
    /\ lpc' = "reading"
    /\ UNCHANGED << listening_for_wake_word, registration_mode,
                    start_registration_requested, lock, vpc, stream,
                    listenRest >>

\* voice_activation.py:112 and 140: the blocking read returns a chunk, or
\* raises (always, once close() has closed the stream), which line 140
\* catches; the with block is left either way
ReadRelease ==
    /\ vpc = "listening"
    /\ lpc = "reading"
    /\ va_lock = "voice"
    /\ va_lock' = "none"
    /\ \E read \in BOOLEAN :
          lpc' = IF read /\ stream = "open" THEN "chunk" ELSE "read"
    /\ UNCHANGED << listening_for_wake_word, registration_mode,
                    start_registration_requested, lock, vpc, stream,
                    listenRest >>

\* voice_activation.py:115-139 with 67-89: process_audio_chunk takes the
\* lock for the chunk; a segment it returns is saved and transcribed without
\* the lock, and a transcript with the wake word leads to reset_state
ProcessChunk ==
    /\ vpc = "listening"
    /\ lpc = "chunk"
    /\ va_lock = "none"
    /\ \E detected \in BOOLEAN :
          lpc' = IF detected THEN "reset" ELSE "read"
    /\ UNCHANGED << listening_for_wake_word, registration_mode,
                    start_registration_requested, lock, vpc, stream, va_lock,
                    listenRest >>

\* voice_activation.py:108 and 143-164: the window has elapsed; the flush
\* can detect the wake word (152), an exception of the call's own code leads
\* to reset_state at line 161, and otherwise the call returns False
WindowEnds ==
    /\ vpc = "listening"
    /\ lpc = "read"
    /\ \E how \in {"detected", "error", "nothing"} :
          CASE how = "detected" ->
                  /\ lpc' = "reset"
                  /\ UNCHANGED << listening_for_wake_word, registration_mode,
                                  start_registration_requested, lock, vpc >>
            [] how = "error" ->
                  /\ lpc' = "reset_error"
                  /\ UNCHANGED << listening_for_wake_word, registration_mode,
                                  start_registration_requested, lock, vpc >>
            [] OTHER -> ListenReturns(FALSE)
    /\ UNCHANGED << stream, va_lock, listenRest >>

\* voice_activation.py:216-221 from lines 129, 152 and 161: reset_state takes
\* the lock and drops the stream; the call returns True after a detection
\* and False after an error
ResetStateLocked ==
    /\ vpc = "listening"
    /\ lpc \in {"reset", "reset_error"}
    /\ va_lock = "none"
    /\ stream' = "none"
    /\ ListenReturns(lpc = "reset")
    /\ UNCHANGED << va_lock, listenRest >>

\* What the steps of close() leave alone
closeRest == << sharedVars, running, wake_word_listening, voiceVars, mpc,
                face_to_register, dialogVars, storeVars, dialogs, outcome,
                backgroundVars, response_text, open_streams, speech_detected,
                audio_buffer, lpc, listens, frames, segments, heard, result,
                flushed, scratch >>

\* main.py:386-397 with voice_activation.py:204-209: run has left its loop
\* and calls close(), which finds a stream and takes the lock, or finds none
\* and is done
CloseAcquire ==
    /\ mpc = "exited"
    /\ closes = 0
    /\ IF stream # "none"
       THEN /\ va_lock = "none"
            /\ va_lock' = "main"
            /\ UNCHANGED closes
       ELSE /\ closes' = 1
            /\ UNCHANGED va_lock
    /\ UNCHANGED << stream, closeRest >>

\* voice_activation.py:210-214: the stream is stopped and closed inside the
\* lock and PyAudio is terminated
CloseRelease ==
    /\ mpc = "exited"
    /\ va_lock = "main"
    /\ va_lock' = "none"
    /\ stream' = "closed"
    /\ closes' = 1
    /\ UNCHANGED closeRest

LockNext ==
    \/ VoicePoll
    \/ VoiceEnter
    \/ VoiceSleep
    \/ EnterListen
    \/ InitializeAudioStream
    \/ ReadAcquire
    \/ ReadRelease
    \/ ProcessChunk
    \/ WindowEnds
    \/ ResetStateLocked
    \/ MainNext
    \/ DialogNext
    \/ CloseAcquire
    \/ CloseRelease

LockSpec == Init /\ [][LockNext]_vars

(***************************************************************************)
(* Claims                                                                  *)
(***************************************************************************)
InDialog == dpc # "idle"

\* C1: in every reachable state registration_mode implies that
\* listening_for_wake_word is false, also right after line 371 of run.
C1_ModeExcludesListening ==
    registration_mode => ~listening_for_wake_word

\* C2 as stated: registration_mode is never true while unknown_faces is
\* empty.
C2_ModeNeverWithoutFaces ==
    ~(registration_mode /\ unknown_faces = << >>)

\* C2 as amended: registration_mode is true with unknown_faces empty only
\* while a request is pending and the main loop stands between its recompute
\* of unknown_faces (line 332) and its request check (line 345) of the same
\* iteration, or has quit there.
C2_OnlyInAbandonWindow ==
    (registration_mode /\ unknown_faces = << >>)
        => /\ start_registration_requested
           /\ mpc \in {"events", "check", "exited"}

C2_Witness ==
    /\ registration_mode
    /\ unknown_faces = << >>
    /\ mpc = "check"

\* C3: at most one register_new_face is in progress at any time, and it is
\* the one the main thread is blocked in, however closely the detections
\* follow each other.
C3_OneDialog ==
    /\ dialogs <= 1
    /\ dialogs = 1 <=> InDialog
    /\ InDialog => mpc = "dialog"

\* A dialog has not returned yet and the next detection is already requested.
C3_Witness ==
    /\ dialogs = 1
    /\ start_registration_requested

\* C4: start_registration_requested implies registration_mode in every
\* state, and the flag is only set by the coordinator inside its lock section
\* with unknown_faces non-empty.
C4_RequestWithinMode ==
    /\ [](start_registration_requested => registration_mode)
    /\ [][(~start_registration_requested /\ start_registration_requested')
              => /\ lock = "voice"
                 /\ Len(unknown_faces) > 0
                 /\ unknown_faces' = unknown_faces]_vars

C4_Witness ==
    /\ start_registration_requested
    /\ vpc = "sleep"
    /\ lock = "none"
    /\ Len(unknown_faces) > 0

\* C5: the lock is never held while the coordinator is inside the blocking
\* listen_for_wake_word.
C5_NoBlockingCallUnderLock ==
    ~(lock = "voice" /\ vpc = "listening")

AllConfirmed ==
    \A f \in {"name", "notes", "category"} : confirmed[f] # NoneVal

Committed ==
    /\ Len(face_notes) = rows0 + 1
    /\ Len(face_db) = faces0 + 1
    /\ face_notes[rows0 + 1].name = confirmed.name
    /\ face_notes[rows0 + 1].notes = confirmed.notes
    /\ face_notes[rows0 + 1].category = confirmed.category

\* C6: a dialog in which name, notes and category were each answered with
\* yes, and which ran to its success notification, has committed the record
\* of the three confirmed values to both stores.
C6_ConfirmedIsCommitted ==
    (dpc = "status" /\ success) => (AllConfirmed /\ Committed)

\* C7: a dialog that ends without its success notification has added no row
\* to face_notes and no entry to face_db.
C7_FailedDialogMutatesNothing ==
    (dpc = "status" /\ ~success)
        => /\ Len(face_notes) = rows0
           /\ Len(face_db) = faces0

\* C8: when the request check of run finds the request flag set and
\* unknown_faces empty, the same lock section clears the flag, clears
\* registration_mode and sets listening_for_wake_word; no dialog is started
\* in that iteration and no store changes.
C8_AbandonedRequest ==
    /\ [][(mpc = "check" /\ mpc' # "check" /\ start_registration_requested
              /\ unknown_faces = << >>)
             => /\ ~start_registration_requested'
                /\ ~registration_mode'
                /\ listening_for_wake_word'
                /\ mpc' = "render"
                /\ face_to_register' = NoneVal
                /\ dialogs' = 0
                /\ face_notes' = face_notes
                /\ face_db' = face_db
                /\ uploads' = uploads]_vars
    /\ [](outcome = "abandoned" => (mpc \notin {"start", "dialog"} /\ ~InDialog))

C8_Witness ==
    /\ outcome = "abandoned"
    /\ mpc = "render"
    /\ ~registration_mode
    /\ listening_for_wake_word

\* C9: whenever register_new_face has returned to run, registration_mode is
\* false and listening_for_wake_word is true.
C9_FlagsResetAtReturn ==
    mpc = "returned" => (~registration_mode /\ listening_for_wake_word)

\* C10: every Active period ends: once registration_mode is true it becomes
\* false again with listening_for_wake_word true, unless the main loop has
\* stopped taking steps.
C10_ActiveEnds ==
    registration_mode
        ~> ((~registration_mode /\ listening_for_wake_word) \/ mpc = "exited")

\* An Active period that a successful dialog has just ended.
C10_Witness ==
    /\ dpc = "status"
    /\ success
    /\ ~registration_mode
    /\ listening_for_wake_word

\* The frames of the call that the classifier classified
Classified == {i \in 1..Len(frames) : frames[i] # "bad"}

\* S is a maximal contiguous run of speech frames of the call, and a silence
\* frame follows it
IsTerminatedRun(S) ==
    /\ S # {}
    /\ \A i \in S : frames[i] = "speech"
    /\ \E lo \in S, hi \in S :
          /\ \A i \in S : lo <= i /\ i <= hi
          /\ \A i \in lo..hi : i \in Classified => i \in S
          /\ \A j \in Classified :
                (j < lo /\ \A k \in Classified : ~(j < k /\ k < lo))
                    => frames[j] = "silence"
          /\ \E j \in Classified :
                /\ hi < j
                /\ frames[j] = "silence"
                /\ \A k \in Classified : ~(hi < k /\ k < j)

TerminatedRuns == {S \in SUBSET (1..Len(frames)) : IsTerminatedRun(S)}

FramesOf(seg) == {seg[k] : k \in 1..Len(seg)}

\* C11: within one listen call the segments process_audio_chunk has emitted
\* are, one for one and in frame order, the maximal runs of speech frames
\* that a silence frame has terminated; no segment holds frames of two runs,
\* and frames that are all silence emit nothing.
C11_OneSegmentPerRun ==
    /\ {FramesOf(segments[k]) : k \in 1..Len(segments)} = TerminatedRuns
    /\ Len(segments) = Cardinality(TerminatedRuns)
    /\ \A k \in 1..Len(segments) :
          /\ Len(segments[k]) = Cardinality(FramesOf(segments[k]))
          /\ \A a \in 1..Len(segments[k]), b \in 1..Len(segments[k]) :
                a < b => segments[k][a] < segments[k][b]
    /\ (\A i \in 1..Len(frames) : frames[i] # "speech") => segments = << >>

\* Two runs of speech, each ended by silence, gave two segments.
C11_Witness ==
    /\ Len(segments) = 2
    /\ frames = << "speech", "silence", "speech", "silence" >>

\* The texts of Responses in which the trigger phrase occurs, in any case
TriggerTexts ==
    {SpokenText(r) : r \in {q \in Responses :
                               Contains(Lower(SpokenText(q)), "register")}}

\* C12: a listen call returns True exactly when the transcript of one of the
\* segments of its window, the one flushed at expiry included, contains the
\* trigger phrase in any case; while no transcript has, the call goes on, and
\* it returns False when the window ends.
C12_DetectedIffTrigger ==
    /\ (lpc = "idle" /\ result = "true")
          => \E k \in 1..Len(heard) : heard[k] \in TriggerTexts
    /\ (lpc = "idle" /\ result = "false")
          => \A k \in 1..Len(heard) : heard[k] \notin TriggerTexts
    /\ lpc = "window"
          => \A k \in 1..Len(heard) : heard[k] \notin TriggerTexts

\* The second segment of a window had the phrase in capitals.
C12_Witness ==
    /\ lpc = "idle"
    /\ result = "true"
    /\ heard = << "hello", "Say REGISTER me" >>

\* C13: the request check of run clears start_registration_requested in the
\* lock section that reads it; a request it finds leads either to the
\* capture of a face and then one dialog, or to one abandonment; a dialog
\* only ever starts after such a capture, with the flag already cleared.
C13_RequestConsumedOnce ==
    /\ [][(mpc = "check" /\ mpc' # "check")
             => /\ ~start_registration_requested'
                /\ start_registration_requested
                      => \/ mpc' = "start" /\ outcome' = "captured"
                         \/ mpc' = "render" /\ outcome' = "abandoned"
                /\ ~start_registration_requested
                      => mpc' = "render" /\ outcome' = "none"]_vars
    /\ [][(mpc # "start" /\ mpc' = "start")
             => mpc = "check" /\ start_registration_requested]_vars
    /\ [][dialogs' > dialogs
             => /\ mpc = "start"
                /\ mpc' = "dialog"
                /\ outcome = "captured"
                /\ dialogs = 0
                /\ ~start_registration_requested]_vars

\* The request has been consumed and its dialog is running.
C13_Witness ==
    /\ outcome = "captured"
    /\ mpc = "dialog"
    /\ dpc = "confirm"
    /\ ~start_registration_requested

\* C14: registration_mode goes from false to true only in a step of the
\* coordinator inside its lock section after a listen, and from true to false
\* only in a step of the main thread, the finally block of the dialog or the
\* abandonment of a request.
C14_ModeTransitions ==
    /\ [][(~registration_mode /\ registration_mode')
             => /\ lock = "voice"
                /\ vpc = "listening"
                /\ vpc' = "sleep"
                /\ mpc' = mpc
                /\ dpc' = dpc]_vars
    /\ [][(registration_mode /\ ~registration_mode')
             => /\ vpc' = vpc
                /\ lock = "none"
                /\ \/ dpc = "finally" /\ dpc' = "status"
                   \/ mpc = "check" /\ outcome' = "abandoned"]_vars

\* An Active period the coordinator opened has been ended by a dialog that
\* failed.
C14_Witness ==
    /\ dpc = "status"
    /\ ~success
    /\ ~registration_mode
    /\ vpc = "sleep"

\* C15: an empty transcript captured for notes or for category is an
\* accepted value: it goes to the yes / no confirmation, so the dialog is
\* never back at the capture of that field with the empty transcript in hand.
C15_EmptyIsAccepted ==
    ~(dpc = "capture" /\ field \in {"notes", "category"} /\ captured = "")

\* C16: after a successful registration the new entry of the embedding store
\* carries the id of the row this registration added to face_notes, and the
\* upload carries that row's name, notes and category.
C16_KeyedByOwnRow ==
    (dpc = "status" /\ success)
        => /\ Len(face_notes) = rows0 + 1
           /\ Len(face_db) = faces0 + 1
           /\ face_db[faces0 + 1].id = PyInt(face_notes[rows0 + 1].id)
           /\ Len(uploads) > 0
           /\ uploads[Len(uploads)] = << face_notes[rows0 + 1].name,
                                         face_notes[rows0 + 1].notes,
                                         face_notes[rows0 + 1].category >>

\* C17: a failed capture of the name changes nothing but the prompt's local,
\* which the next capture overwrites: whenever the dialog is at the
\* confirmation of the name, after any number of failed captures, its state,
\* the stores and the flags are those of the start of the dialog, with the
\* captured text in hand.
C17_FailedCaptureLeavesNoTrace ==
    /\ [][(dpc = "capture" /\ field = "name" /\ dpc' \in {"capture", "confirm"}
              /\ (captured' # captured \/ dpc' # dpc))
             => /\ dpc' = "confirm" => Accepted(captured')
                /\ UNCHANGED << field, name, notes, category, id, confirmed,
                                rows0, faces0, success, storeVars, dialogs,
                                mpc, face_to_register,
                                listening_for_wake_word, registration_mode,
                                start_registration_requested >>]_vars
    /\ []((dpc = "confirm" /\ field = "name")
             => /\ Accepted(captured)
                /\ name = ""
                /\ notes = ""
                /\ category = ""
                /\ id = PyNone
                /\ confirmed = NoConfirmed
                /\ ~success
                /\ Len(face_notes) = rows0
                /\ Len(face_db) = faces0
                /\ registration_mode
                /\ ~start_registration_requested)

\* A capture of the name has just failed with an empty transcript.
C17_Witness ==
    /\ dpc = "capture"
    /\ field = "name"
    /\ captured = ""

\* C19: every stream the session opens is released: at most one stream is
\* open at any time, and once close() has been called and no listen call is
\* running, none is.
C19_EveryStreamReleased ==
    /\ open_streams <= 1
    /\ (closes > 0 /\ lpc = "idle") => open_streams = 0

\* C20: a missing or unusable input device is confined to the voice
\* subsystem: the main loop exists and keeps its place, and a listen attempt
\* that cannot open the stream returns not detected at once, releases the
\* lock, changes no registration flag and starts no dialog.
C20_NoDeviceConfined ==
    /\ [](mpc # "crashed")
    /\ [][(vpc = "listening" /\ vpc' # vpc /\ stream = "none"
              /\ stream' = "none")
             => /\ vpc' = "sleep"
                /\ lock' = "none"
                /\ UNCHANGED << listening_for_wake_word, registration_mode,
                                start_registration_requested, unknown_faces,
                                mpc, dpc, dialogs, storeVars >>]_vars

\* The coordination flags
flags == << listening_for_wake_word, registration_mode,
            start_registration_requested >>

C22_MainLoopStaysLive ==
    [][(mpc # "exited" /\ mpc' = "exited") => mpc = "events"]_vars

C24_RequestIsAtomic ==
    /\ [][(vpc = "listening" /\ stream = "open" /\ stream' = "none")
             => /\ lock = "voice"
                /\ lock' = "none"
                /\ IF ~registration_mode /\ Len(unknown_faces) > 0
                   THEN /\ ~listening_for_wake_word'
                        /\ registration_mode'
                        /\ start_registration_requested'
                   ELSE UNCHANGED flags]_vars
    /\ [][(vpc = "listening" /\ vpc' # "listening"
              /\ ~(stream = "open" /\ stream' = "none"))
             => UNCHANGED flags]_vars
    /\ [][(lock = "voice" /\ lock' = "voice") => UNCHANGED flags]_vars

\* A detection has just been turned into a request.
C24_Witness ==
    /\ vpc = "sleep"
    /\ stream = "none"
    /\ lock = "none"
    /\ ~listening_for_wake_word
    /\ registration_mode
    /\ start_registration_requested
    /\ mpc = "render"

\* The dialog is between its first prompt and the reset of the flags in its
\* finally block: the part of register_new_face that records
DialogRecording ==
    dpc \in {"capture", "confirm", "store", "get_id", "add_face", "upload",
             "finally"}

\* C25: the coordinator enters listen_for_wake_word only from its lock
\* section, with listening_for_wake_word true, registration_mode false and
\* unknown_faces non-empty, and keeps the lock; and it is never inside
\* listen_for_wake_word while the dialog is recording or about to start.
C25_ListenOnlyWhenIdle ==
    /\ [][(vpc # "listening" /\ vpc' = "listening")
             => /\ vpc = "acquire"
                /\ listening_for_wake_word
                /\ ~registration_mode
                /\ Len(unknown_faces) > 0
                /\ lock' = "voice"]_vars
    /\ [](vpc = "listening" => (~DialogRecording /\ mpc # "start"))

\* The detector is listening while the main thread waits for the lock.
C25_Witness ==
    /\ vpc = "listening"
    /\ stream = "open"
    /\ mpc = "check"
    /\ dialogs = 0
    /\ ~registration_mode

\* C26: in a dialog the row is added to face_notes before the entry is added
\* to face_db, the upload task is started with both added, once, as the last
\* step before the finally block, and the end of an upload task, failed or
\* not, changes neither store nor flag.
C26_CommitOrdered ==
    /\ [][Len(face_notes') > Len(face_notes)
             => (dpc = "store" /\ Len(face_db) = faces0)]_vars
    /\ [][Len(face_db') > Len(face_db)
             => (dpc = "add_face" /\ Len(face_notes) = rows0 + 1)]_vars
    /\ [][uploads' # uploads
             => /\ dpc = "upload"
                /\ dpc' = "finally"
                /\ Len(uploads') = Len(uploads) + 1
                /\ Len(face_notes) = rows0 + 1
                /\ Len(face_db) = faces0 + 1]_vars
    /\ [][posted' # posted
             => UNCHANGED << face_notes, face_db, uploads, flags >>]_vars

\* C27: the dialog prompts for name, notes and category in this order: while
\* it is at notes the name has been answered with yes and nothing else, while
\* it is at category name and notes have; it moves on from a field only by a
\* yes to the value captured for it, and only to the next field; and a capture
\* only ever starts for a field that has no confirmed value.
C27_FieldsInOrder ==
    /\ []((InDialog /\ field = "name") => confirmed = NoConfirmed)
    /\ [](field = "notes"
             => /\ confirmed.name # NoneVal
                /\ confirmed.notes = NoneVal
                /\ confirmed.category = NoneVal)
    /\ [](field = "category"
             => /\ confirmed.name # NoneVal
                /\ confirmed.notes # NoneVal
                /\ confirmed.category = NoneVal)
    /\ [][field' # field
             => \/ dpc = "idle" /\ field' = "name"
                \/ dpc' = "idle" /\ field' = "none"
                \/ /\ dpc = "confirm"
                   /\ << field, field' >> \in {<< "name", "notes" >>,
                                               << "notes", "category" >>,
                                               << "category", "none" >>}
                   /\ Accepted(captured)
                   /\ confirmed' = [confirmed EXCEPT ![field] = captured]]_vars
    /\ [][(dpc' = "capture" /\ dpc # "capture")
             => confirmed'[field'] = NoneVal]_vars

\* Name and notes are confirmed and the category is being captured.
C27_Witness ==
    /\ dpc = "capture"
    /\ field = "category"
    /\ confirmed = [name |-> "Alice", notes |-> "tall", category |-> NoneVal]

\* The field the dialog prompts for after f
NextField(f) ==
    CASE f = "name" -> "notes"
      [] f = "notes" -> "category"
      [] f = "category" -> "none"

\* C28: a round of the confirmation loop whose response has "yes" in it
\* returns the captured value as it is, as the value of the field, and the
\* dialog moves to the next field; one whose response has "no" and not "yes"
\* drops the captured value and goes back to the capture of the same field;
\* any other response, and a failed transcription, leaves the dialog at the
\* confirmation with the captured value in hand.  (A round that raises ends
\* the dialog through its except block.)
C28_ConfirmationLoop ==
    [][(dpc = "confirm" /\ dpc' # "finally")
         => IF response_text' # NoneVal /\ Contains(Lower(response_text'), "yes")
            THEN /\ confirmed' = [confirmed EXCEPT ![field] = captured]
                 /\ field = "name" => name' = captured
                 /\ field = "notes" => notes' = captured
                 /\ field = "category" => category' = captured
                 /\ field' = NextField(field)
                 /\ dpc' = IF field = "category" THEN "store" ELSE "capture"
            ELSE IF response_text' # NoneVal
                    /\ Contains(Lower(response_text'), "no")
            THEN /\ dpc' = "capture"
                 /\ captured' = NoneVal
                 /\ UNCHANGED << field, name, notes, category, confirmed >>
            ELSE /\ dpc' = "confirm"
                 /\ UNCHANGED << captured, field, name, notes, category,
                                 confirmed >>]_vars

\* The name was confirmed by a response that has both words in it.
C28_Witness ==
    /\ response_text = "oh yes not no"
    /\ field = "notes"
    /\ dpc = "capture"
    /\ name = "bob"
    /\ confirmed.name = "bob"

\* seg lists its frames in arrival order, none twice
Ascending(seg) ==
    \A a \in 1..Len(seg), b \in 1..Len(seg) : a < b => seg[a] < seg[b]

\* The speech frames of the call after its last silence frame: the run in
\* progress
OpenRun ==
    {i \in Classified :
        /\ frames[i] = "speech"
        /\ \A j \in Classified : j > i => frames[j] = "speech"}

\* The segments of the call that went to save_audio and transcribe_audio:
\* those process_audio_chunk returned and, at expiry, the flushed buffer
Handed ==
    {segments[k] : k \in 1..Len(segments)}
        \cup (IF flushed = << >> THEN {} ELSE {flushed})

\* C29: every segment handed to transcription is non-empty and lists, in
\* arrival order, exactly the frames of one run of speech frames of this
\* call, a run ended by silence or, for the flush, the run in progress at
\* expiry; no frame is in two of them; and inside the window the buffer holds
\* exactly the run in progress, so every run starts on an empty buffer.
C29_SegmentIsOneRun ==
    /\ \A seg \in Handed :
          /\ Len(seg) > 0
          /\ Ascending(seg)
          /\ FramesOf(seg) \subseteq 1..Len(frames)
          /\ \A i \in FramesOf(seg) : frames[i] = "speech"
    /\ \A k \in 1..Len(segments) : IsTerminatedRun(FramesOf(segments[k]))
    /\ flushed # << >> => FramesOf(flushed) = OpenRun
    /\ \A k \in 1..Len(segments), l \in 1..Len(segments) :
          k # l => FramesOf(segments[k]) \cap FramesOf(segments[l]) = {}
    /\ \A k \in 1..Len(segments) :
          FramesOf(segments[k]) \cap FramesOf(flushed) = {}
    /\ lpc = "window"
          => /\ Ascending(audio_buffer)
             /\ FramesOf(audio_buffer) = OpenRun
             /\ speech_detected <=> audio_buffer # << >>

\* The second call of a session handed over one run that silence ended and,
\* at expiry, the run then in progress.
C29_Witness ==
    /\ listens = 2
    /\ lpc = "idle"
    /\ frames = << "speech", "silence", "bad", "speech" >>
    /\ segments = << << 1 >> >>
    /\ flushed = << 4 >>

\* C30: the step in which a transcript has the trigger phrase ends the call
\* with True, the buffer empty and the VAD state silence; a call that
\* returned True has heard the phrase in its last transcript and in no
\* earlier one, so nothing was read after the match; every detection rests
\* on a transcript obtained in its own step; and the next call starts its
\* window with an empty buffer.
C30_DetectionLeavesNoState ==
    /\ [][(lpc = "window" /\ Len(heard') > Len(heard)
              /\ heard'[Len(heard')] \in TriggerTexts)
             => /\ lpc' = "idle"
                /\ result' = "true"
                /\ audio_buffer' = << >>
                /\ ~speech_detected'
                /\ Len(frames') <= Len(frames) + 1]_vars
    /\ []((lpc = "idle" /\ result = "true")
             => /\ audio_buffer = << >>
                /\ ~speech_detected
                /\ Len(heard) > 0
                /\ heard[Len(heard)] \in TriggerTexts
                /\ \A k \in 1..(Len(heard) - 1) : heard[k] \notin TriggerTexts)
    /\ [][(result # "true" /\ result' = "true")
             => (lpc = "window" /\ Len(heard') = Len(heard) + 1)]_vars
    /\ [][(lpc = "idle" /\ lpc' = "window")
             => (audio_buffer' = << >> /\ ~speech_detected'
                    /\ heard' = << >>)]_vars

\* Two calls in a row have each returned True, the second on its own frames.
C30_Witness ==
    /\ listens = 2
    /\ open_streams = 2
    /\ lpc = "idle"
    /\ result = "true"
    /\ frames = << "speech", "silence" >>
    /\ audio_buffer = << >>

\* The step in which the window of a listen call ends by the clock
Expiry == lpc = "window" /\ lpc' = "idle" /\ frames' = frames

\* C31 as stated: at expiry with a speech run in progress the buffer is
\* transcribed exactly once and the call returns True exactly when the
\* transcript has the trigger phrase; with an empty buffer nothing is
\* transcribed.
C31_ExpiryTranscribesOnce ==
    [][Expiry
         => IF OpenRun # {}
            THEN /\ Len(heard') = Len(heard) + 1
                 /\ result' = "true" <=> heard'[Len(heard')] \in TriggerTexts
            ELSE /\ heard' = heard
                 /\ result' = "false"]_vars

\* C31, amended: at expiry with a speech run in progress the buffer, which
\* holds that run, is handed to save_audio once; when the file was written it
\* is transcribed exactly once and the call returns True exactly when the
\* transcript has the trigger phrase; when the save failed nothing is
\* transcribed and the call returns False; with an empty buffer nothing is
\* saved or transcribed.
C31_ExpiryFlushesOnce ==
    [][Expiry
         => IF OpenRun # {}
            THEN /\ flushed' = audio_buffer
                 /\ FramesOf(flushed') = OpenRun
                 /\ IF scratch' = [call |-> listens, frames |-> audio_buffer]
                    THEN /\ Len(heard') = Len(heard) + 1
                         /\ result' = "true"
                               <=> heard'[Len(heard')] \in TriggerTexts
                    ELSE /\ heard' = heard
                         /\ scratch' = scratch
                         /\ result' = "false"
            ELSE /\ heard' = heard
                 /\ flushed' = << >>
                 /\ scratch' = scratch
                 /\ result' = "false"]_vars

\* A window ended on two speech frames; the flush was saved, its transcript
\* had the phrase and the call returned True.
C31_Witness ==
    /\ lpc = "idle"
    /\ result = "true"
    /\ frames = << "silence", "speech", "speech" >>
    /\ flushed = << 2, 3 >>
    /\ scratch = [call |-> listens, frames |-> << 2, 3 >>]
    /\ heard = << "Say REGISTER me" >>

\* The step handed a segment of the window to save_audio and either the save
\* failed or the transcription gave nothing (an error or no result)
NotUnderstood ==
    /\ lpc = "window"
    /\ Len(segments') = Len(segments) + 1
    /\ \/ heard' = heard
       \/ Len(heard') = Len(heard) + 1 /\ heard'[Len(heard')] = ""

\* C32: a segment of the window whose save failed or whose transcription
\* failed or was empty does not end the call: the call has not returned, the
\* stream is kept, and the loop goes on with an empty buffer and the VAD
\* state silence, one frame further.
C32_NotUnderstoodContinues ==
    [][NotUnderstood
         => /\ lpc' = "window"
            /\ result' = "none"
            /\ stream' = stream
            /\ audio_buffer' = << >>
            /\ ~speech_detected'
            /\ Len(frames') = Len(frames) + 1]_vars

\* After a segment that was not understood, a later segment of the same
\* window had the phrase and the call returned True.
C32_Witness ==
    /\ lpc = "idle"
    /\ result = "true"
    /\ frames = << "speech", "silence", "speech", "silence" >>
    /\ segments = << << 1 >>, << 3 >> >>
    /\ heard = << "", "Say REGISTER me" >>

\* C33, for the listen call: the step in which the transcription of a saved
\* segment succeeds with a text removes the scratch file, so that the
\* scratch file left after a call is never that of a transcribed segment.
C33_ScratchOnlyOfFailures ==
    [][(Len(heard') = Len(heard) + 1 /\ heard'[Len(heard')] # "")
         => scratch' = NoFile]_vars

\* The coordinator passes the test of line 75 and calls update_status
Publishes == vpc = "acquire" /\ vpc' # vpc /\ ShouldListen # current_display

\* C34 as stated: the value the coordinator compares should_listen with, to
\* decide whether it publishes, is the value it broadcast last.
C34_ComparesWithLastBroadcast ==
    vpc = "acquire" => current_display = last_broadcast

\* C34, amended: the coordinator publishes should_listen exactly when it
\* differs from the display's listening status as read at the start of the
\* iteration; the display then holds the published value and otherwise is
\* left alone; the main thread changes the status only to false and only
\* during a registration, when should_listen is false; and a publication of
\* the value published last is one of true after such a reset.
C34_PublishesOnDisplayChange ==
    /\ [][(vpc = "poll" /\ vpc' = "acquire")
             => current_display' = wake_word_listening]_vars
    /\ [][(vpc = "acquire" /\ vpc' # vpc)
             => IF ShouldListen # current_display
                THEN /\ wake_word_listening' = ShouldListen
                     /\ last_broadcast' = ShouldListen
                ELSE UNCHANGED << wake_word_listening, last_broadcast >>]_vars
    /\ [][(wake_word_listening' # wake_word_listening /\ vpc' = vpc)
             => (~wake_word_listening' /\ registration_mode
                    /\ ~ShouldListen)]_vars
    /\ [][last_broadcast' # last_broadcast => Publishes]_vars
    /\ [][(Publishes /\ ShouldListen = last_broadcast)
             => (last_broadcast /\ ~current_display)]_vars
    /\ [](last_broadcast # wake_word_listening
             => (last_broadcast /\ ~wake_word_listening))

\* The coordinator published true, a registration reset the display, and the
\* coordinator is about to publish true again.
C34_Witness ==
    /\ vpc = "acquire"
    /\ lock = "none"
    /\ last_broadcast
    /\ ~current_display
    /\ ShouldListen

\* The dialog is inside one of its prompts
Prompting == dpc \in {"capture", "confirm"}

\* A capture of the prompt loop brought no transcript, or an empty one
FailedCapture ==
    /\ dpc = "capture"
    /\ captured' # captured
    /\ captured' \in {NoneVal, ""}

C36_SnapshotIsCurrentFirst ==
    /\ [][(mpc = "check" /\ mpc' = "start")
             => /\ Len(unknown_faces) > 0
                /\ face_to_register' = unknown_faces[1]
                /\ unknown_faces' = unknown_faces]_vars
    /\ [][unknown_faces' # unknown_faces
             => (mpc = "frame" /\ mpc' = "events")]_vars
    /\ [][(mpc = "frame" /\ mpc' # mpc /\ mpc' # "exited")
             => mpc' = "events"]_vars
    /\ [][(mpc = "events" /\ mpc' # mpc /\ mpc' # "exited")
             => mpc' = "check"]_vars
    /\ [][(dpc = "idle" /\ dpc' # "idle")
             => /\ mpc = "start"
                /\ face_to_register # NoneVal
                /\ face_to_register' = face_to_register]_vars
    /\ [](dpc # "idle"
             => /\ Len(unknown_faces) > 0
                /\ face_to_register = unknown_faces[1])

\* The dialog runs on the second person, who came first in the frame of the
\* iteration that consumed the request.
C36_Witness ==
    /\ dpc = "capture"
    /\ mpc = "dialog"
    /\ face_to_register = "f2"
    /\ unknown_faces = << "f2", "f1" >>

\* listen_for_wake_word returns detected to the coordinator
Detected == vpc = "listening" /\ stream = "open" /\ stream' = "none"

\* C37: the step in which the detector reports a detection finds
\* registration_mode false and unknown_faces non-empty and makes the
\* request; while the coordinator is in listen_for_wake_word it holds the
\* lock and should_listen is still true; and no step across which the
\* coordinator keeps the lock changes unknown_faces or a flag.  The branch
\* that discards a detection is never taken.
C37_DetectionAlwaysRequests ==
    /\ [][Detected
             => /\ ~registration_mode
                /\ Len(unknown_faces) > 0
                /\ registration_mode'
                /\ start_registration_requested'
                /\ ~listening_for_wake_word']_vars
    /\ [](vpc = "listening" => (lock = "voice" /\ ShouldListen))
    /\ [][(lock = "voice" /\ lock' = "voice")
             => UNCHANGED << unknown_faces, flags >>]_vars

\* A detection became a request while the main loop was about to store the
\* faces of its next frame.
C37_Witness ==
    /\ vpc = "sleep"
    /\ stream = "none"
    /\ start_registration_requested
    /\ registration_mode
    /\ mpc = "frame"
    /\ Len(unknown_faces) = 2
    /\ dialogs = 0

\* C38 helpers: the two threads that take locks and the two locks
LockThreads == {"voice", "main"}

LockNames == {"coordination", "activation"}

\* The thread that holds a lock, or "none"
Holder(l) == IF l = "coordination" THEN lock ELSE va_lock

\* The locks a thread is about to acquire at its place in the code: the
\* coordinator at line 72 of main.py and, inside listen_for_wake_word, at
\* lines 49, 111, 69 and 218 of voice_activation.py; the main thread at its
\* lock sections of run and register_new_face and at line 209 of close()
Wants(t) ==
    IF t = "voice"
    THEN (IF vpc = "acquire" THEN {"coordination"} ELSE {})
         \cup (IF vpc = "listening"
                  /\ lpc \in {"init", "read", "chunk", "reset", "reset_error"}
               THEN {"activation"} ELSE {})
    ELSE (IF mpc \in {"frame", "check", "returned"} \/ dpc = "finally"
          THEN {"coordination"} ELSE {})
         \cup (IF mpc = "exited" /\ closes = 0 /\ stream # "none"
                  /\ va_lock # "main"
               THEN {"activation"} ELSE {})

\* Thread t cannot go on before thread u releases a lock
WaitsFor(t, u) == \E l \in Wants(t) : Holder(l) = u

\* A thread that holds a lock inside listen or close is at a place where it
\* releases the lock without acquiring anything
HolderGoesOn(t) ==
    (\E l \in LockNames : Holder(l) = t /\ l = "activation") => Wants(t) = {}

\* C38: over the coordination lock and the VoiceActivation lock no thread
\* ever waits for a lock it holds itself, no two threads ever wait for each
\* other, and whoever holds the VoiceActivation lock is about to release it;
\* this covers close() called by main while the coordinator is inside
\* listen_for_wake_word and reset_state after a detection or an error
C38_NoLockDeadlock ==
    /\ \A t \in LockThreads : ~WaitsFor(t, t)
    /\ \A t, u \in LockThreads : ~(WaitsFor(t, u) /\ WaitsFor(u, t))
    /\ \A t \in LockThreads : HolderGoesOn(t)

\* C38 witness: main holds the VoiceActivation lock in close() while the
\* coordinator, inside listen_for_wake_word under the coordination lock,
\* waits for it at reset_state
C38_Witness ==
    /\ mpc = "exited"
    /\ va_lock = "main"
    /\ lock = "voice"
    /\ vpc = "listening"
    /\ lpc \in {"reset", "reset_error"}
    /\ WaitsFor("voice", "main")

====
